---- MODULE Spec2Model ----
(***************************************************************************)
(* The Chat component of YewChat (src/YewChat/src/components/chat.rs) as a *)
(* state machine: create, update (HandleMsg, SubmitMessage,                *)
(* ToggleDarkMode) and view, together with the three collaborators the     *)
(* component touches: the websocket sender (wss.tx), the browser's         *)
(* localStorage entry "dark_mode" and the chat input element.              *)
(*                                                                         *)
(* Option<T> is a sequence of length at most one: <<>> is None, <<v>> is   *)
(* Some(v).  A message body is a sequence of one-character strings, so     *)
(* that ends_with is decided on the characters.  A panic (unwrap on None   *)
(* or Err) ends the component: status leaves "running" and only a page     *)
(* reload (a new create) follows.                                          *)
(***************************************************************************)
EXTENDS Integers, Sequences, FiniteSets

VARIABLES username, users, messages, dark_mode, input, sent, storage,
          status, rendered, last, roster_src, received

vars == <<username, users, messages, dark_mode, input, sent, storage,
          status, rendered, last, roster_src, received>>

(***************************************************************************)
(* username    user.username of the User context (create)                  *)
(* users       Chat.users, the roster                                      *)
(* messages    Chat.messages                                               *)
(* dark_mode   Chat.dark_mode                                              *)
(* input       the value of the chat input element (chat_input)            *)
(* sent        the frames handed to wss.tx.try_send since create, in order *)
(*             (whether try_send returned Ok is in last.send_ok)           *)
(* storage     localStorage's "dark_mode" entry, an Option<String>         *)
(* status      "running", or where the component panicked: "panic_frame"   *)
(*             (line 100), "panic_data" (line 119), "panic_view" (line 232)*)
(* rendered    the page as last rendered by view                           *)
(* last        history: the last operation, the value update returned, the *)
(*             outcome of its send / storage access, the class of the      *)
(*             frame handled and, for toggles in a row, their count and    *)
(*             the flag and store before the first of them                 *)
(* roster_src  history: the name list of the last users frame handled      *)
(* received    history: (from, body) of the well-formed message frames     *)
(*             handled                                                     *)
(***************************************************************************)

---------------------------------------------------------------------------
\* Bounds of the model.
MaxRoster == 2
MaxMessages == 2
MaxSends == 2
MaxBodyLen == 5

None == <<>>
Some(v) == <<v>>

Names == {"a", "b"}
Usernames == {"alice"}
Texts == {"", "hello"}
Hi == <<"h", "i">>
AGif == <<"a", ".", "g", "i", "f">>
FooGif == <<"f", "o", "o", ".", "g", "i", "f">>
FooGifTxt == <<"f", "o", "o", ".", "g", "i", "f", ".", "t", "x", "t">>
EmptyBody == <<>>
Bodies == {Hi}
Alphabet == {".", "g", "i", "f"}

SeqsUpTo(S, n) == UNION {[1..k -> S] : k \in 0..n}

NameLists == SeqsUpTo(Names, MaxRoster)
GifBodies == SeqsUpTo(Alphabet, MaxBodyLen) \cup {FooGif, FooGifTxt, EmptyBody}

---------------------------------------------------------------------------
\* serde: the wire names of the MsgTypes variants and of the struct fields.

SerializeMsgType(v) ==
  CASE v = "Users" -> "users"
    [] v = "Register" -> "register"
    [] v = "Message" -> "message"

DeserializeMsgType(tag) ==
  CASE tag = "users" -> Some("Users")
    [] tag = "register" -> Some("Register")
    [] tag = "message" -> Some("Message")
    [] OTHER -> None

WebSocketMessage(t, arr, d) == [message_type |-> t, data_array |-> arr, data |-> d]

\* serde_json::to_string(&WebSocketMessage): None fields are written as null.
ToJsonString(m) ==
  [json |-> TRUE,
   messageType |-> Some(SerializeMsgType(m.message_type)),
   dataArray |-> m.data_array,
   data |-> m.data]

\* serde_json::from_str::<WebSocketMessage>: Err on text that is not JSON, on a
\* missing messageType and on a tag that names no variant; a missing or
\* null dataArray / data is None.
FromStr(s) ==
  IF s.json /\ s.messageType # None /\ DeserializeMsgType(s.messageType[1]) # None
  THEN [ok |-> TRUE,
        val |-> WebSocketMessage(DeserializeMsgType(s.messageType[1])[1],
                                 s.dataArray, s.data)]
  ELSE [ok |-> FALSE, val |-> WebSocketMessage("Register", None, None)]

MessageData(f, m) == [from |-> f, message |-> m]

\* serde_json::from_str::<MessageData>: both fields are required.
FromStrMessageData(p) ==
  IF p.json /\ p.from # None /\ p.message # None
  THEN [ok |-> TRUE, val |-> MessageData(p.from[1], p.message[1])]
  ELSE [ok |-> FALSE, val |-> MessageData("", <<>>)]

---------------------------------------------------------------------------
\* Inbound frames the transport may deliver.

Payload(j, f, m) == [json |-> j, from |-> f, message |-> m]
Payloads ==
  {Payload(FALSE, None, None)} \cup
  {Payload(TRUE, f, m) : f \in {None} \cup {Some(n) : n \in Names},
                         m \in {None} \cup {Some(b) : b \in Bodies}}

Raw(j, t, arr, d) == [json |-> j, messageType |-> t, dataArray |-> arr, data |-> d]
NotJson == Raw(FALSE, None, None, None)

RawFrames ==
  {NotJson, Raw(TRUE, None, None, None), Raw(TRUE, Some("bogus"), None, None),
   Raw(TRUE, Some("register"), None, None),
   Raw(TRUE, Some("users"), None, None), Raw(TRUE, Some("message"), None, None)}
  \cup {Raw(TRUE, Some("users"), Some(l), None) : l \in NameLists}
  \cup {Raw(TRUE, Some("message"), None, Some(p)) : p \in Payloads}
  \cup {Raw(TRUE, Some("register"), None, Some(Payload(FALSE, None, None)))}

GifRawFrames ==
  {Raw(TRUE, Some("users"), Some(<<"a">>), None)}
  \cup {Raw(TRUE, Some("message"), None, Some(Payload(TRUE, Some("a"), Some(b)))) :
          b \in GifBodies}

---------------------------------------------------------------------------
\* The component.

AvatarBase == "https://avatars.dicebear.com/api/adventurer-neutral/"
Avatar(u) == <<AvatarBase, u, ".svg">>
UserProfile(u) == [name |-> u, avatar |-> Avatar(u)]

BoolToDigit(b) == IF b THEN "1" ELSE "0"

\* bool::to_string
BoolToString(b) == IF b THEN "true" ELSE "false"

\* create: the dark-mode preference read from localStorage.
LoadDarkMode(store, read_ok) ==
  IF read_ok /\ store # None THEN store[1] = "true" ELSE FALSE

RegisterAsMessage(name) == ToJsonString(WebSocketMessage("Message", None, Some(name)))

RegisterFrame(name) == ToJsonString(WebSocketMessage("Register", None, Some(name)))
MessageFrame(text) == ToJsonString(WebSocketMessage("Message", None, Some(text)))

Contains(s, suf) ==
  \E k \in 1..(Len(s) - Len(suf) + 1) : SubSeq(s, k, k + Len(suf) - 1) = suf

\* str::ends_with
EndsWith(s, suf) ==
  /\ Len(s) >= Len(suf)
  /\ SubSeq(s, Len(s) - Len(suf) + 1, Len(s)) = suf

DotGif == <<".", "g", "i", "f">>

\* Iterator::find: the index of the first profile named n, 0 if there is none.
Find(us, n) ==
  IF \E i \in 1..Len(us) : us[i].name = n
  THEN CHOOSE i \in 1..Len(us) :
         /\ us[i].name = n
         /\ \A j \in 1..(i - 1) : us[j].name # n
  ELSE 0

MainBg(dm) == IF dm THEN "bg-gray-900 text-white" ELSE "bg-white text-black"

RenderMessage(us, m) ==
  [avatar |-> us[Find(us, m.from)].avatar,
   from |-> m.from,
   kind |-> IF EndsWith(m.message, DotGif) THEN "image" ELSE "text",
   content |-> m.message]

\* view: panics when find(..).unwrap() meets a message whose sender is not in
\* the roster.
View(us, ms, dm) ==
  IF \E i \in 1..Len(ms) : Find(us, ms[i].from) = 0
  THEN [panic |-> TRUE, main_bg |-> MainBg(dm), users |-> <<>>, messages |-> <<>>]
  ELSE [panic |-> FALSE,
        main_bg |-> MainBg(dm),
        users |-> [i \in 1..Len(us) |-> [src |-> us[i].avatar, name |-> us[i].name]],
        messages |-> [i \in 1..Len(ms) |-> RenderMessage(us, ms[i])]]

\* update, Msg::HandleMsg arm: the new roster and message list, the value
\* returned, and where it panicked ("" when it did not).
UsersMerged(arr) ==
  LET l == IF arr = None THEN <<>> ELSE arr[1]
  IN  users \o [i \in 1..Len(l) |-> UserProfile(l[i])]

UsersFromMessage(arr) ==
  LET l == IF arr = None THEN <<>> ELSE arr[1]
  IN  [i \in 1..Len(l) |-> UserProfile(l[i])]

PushFront(ms, m) == <<m>> \o ms

PushMessage(ms, m) == Append(ms, m)

UpdateHandleMsg(us, ms, s) ==
  LET msg == FromStr(s) IN
  IF ~msg.ok
  THEN [panic |-> "frame", users |-> us, messages |-> ms, ret |-> FALSE]
  ELSE CASE msg.val.message_type = "Users" ->
              [panic |-> "", users |-> UsersFromMessage(msg.val.data_array),
               messages |-> ms, ret |-> TRUE]
         [] msg.val.message_type = "Message" ->
              IF msg.val.data = None \/ ~FromStrMessageData(msg.val.data[1]).ok
              THEN [panic |-> "data", users |-> us, messages |-> ms, ret |-> FALSE]
              ELSE [panic |-> "", users |-> us,
                    messages |-> PushMessage(ms, FromStrMessageData(msg.val.data[1]).val),
                    ret |-> TRUE]
         [] OTHER ->
              [panic |-> "", users |-> us, messages |-> ms, ret |-> FALSE]

\* update, Msg::ToggleDarkMode arm.
ToggleFlag(dm) == ~dm
ToggleStoreStale(store, dm, write_ok) ==
  IF write_ok THEN Some(BoolToString(~dm)) ELSE store

\* storage.set_item("dark_mode", &self.dark_mode.to_string()), its error dropped.
ToggleStore(store, dm, write_ok) ==
  IF write_ok THEN Some(BoolToString(dm)) ELSE store

---------------------------------------------------------------------------
\* What the last operation was and how it ended (history, for the properties).

Last(op, ret, send_ok, store_ok, kind, wf, n, d0, s0, ok1) ==
  [op |-> op, ret |-> ret, send_ok |-> send_ok, store_ok |-> store_ok,
   kind |-> kind, wellformed |-> wf, n |-> n, dark0 |-> d0, store0 |-> s0,
   ok1 |-> ok1]

LastPlain(op, ret, send_ok, store_ok) ==
  Last(op, ret, send_ok, store_ok, "", TRUE, 0, FALSE, None, TRUE)

\* The tag class of an inbound frame and whether the frame is well formed.
FrameKind(s) ==
  IF s.json /\ s.messageType # None /\ s.messageType[1] \in {"users", "message", "register"}
  THEN s.messageType[1]
  ELSE "unrecognized"

WellFormed(s) ==
  /\ FrameKind(s) # "unrecognized"
  /\ FrameKind(s) = "message" =>
       /\ s.data # None
       /\ s.data[1].json /\ s.data[1].from # None /\ s.data[1].message # None

---------------------------------------------------------------------------
\* create, followed by the first render.
CreateState(name, store, send_ok, read_ok) ==
  /\ username' = name
  /\ users' = <<>>
  /\ messages' = <<>>
  /\ input' = ""
  /\ sent' = <<RegisterFrame(name)>>
  /\ dark_mode' = LoadDarkMode(store, read_ok)
  /\ storage' = store
  /\ status' = "running"
  /\ rendered' = View(<<>>, <<>>, LoadDarkMode(store, read_ok))
  /\ last' = Last("create", "none", send_ok, read_ok, "", TRUE,
                  IF last.op = "toggle" /\ last.store_ok THEN 1 ELSE 0,
                  dark_mode, None, TRUE)
  /\ roster_src' = None
  /\ received' = <<>>

Init ==
  \E name \in Usernames, store \in {None, Some("true"), Some("false"), Some("1")},
     send_ok \in BOOLEAN, read_ok \in BOOLEAN :
    /\ username = name
    /\ users = <<>>
    /\ messages = <<>>
    /\ input = ""
    /\ sent = <<RegisterFrame(name)>>
    /\ dark_mode = LoadDarkMode(store, read_ok)
    /\ storage = store
    /\ status = "running"
    /\ rendered = View(<<>>, <<>>, LoadDarkMode(store, read_ok))
    /\ last = LastPlain("create", "none", send_ok, read_ok)
    /\ roster_src = None
    /\ received = <<>>

\* A page reload: the component is created again over the same localStorage.
Create ==
  \E send_ok \in BOOLEAN, read_ok \in BOOLEAN :
    CreateState(username, storage, send_ok, read_ok)

\* The scheduler renders after an update that returned true.
Rerender(us, ms, dm) ==
  IF View(us, ms, dm).panic
  THEN status' = "panic_view" /\ rendered' = rendered
  ELSE status' = "running" /\ rendered' = View(us, ms, dm)

HandleMsg(s) ==
  /\ status = "running"
  /\ LET r == UpdateHandleMsg(users, messages, s) IN
     /\ Len(r.messages) <= MaxMessages
     /\ users' = r.users
     /\ messages' = r.messages
     /\ IF r.panic # ""
        THEN /\ status' = (IF r.panic = "frame" THEN "panic_frame" ELSE "panic_data")
             /\ rendered' = rendered
        ELSE IF r.ret
             THEN Rerender(r.users, r.messages, dark_mode)
             ELSE status' = "running" /\ rendered' = rendered
     /\ last' = Last("handle",
                     IF r.panic # "" THEN "panic" ELSE IF r.ret THEN "true" ELSE "false",
                     TRUE, TRUE, FrameKind(s), WellFormed(s), 0, FALSE, None, TRUE)
  /\ roster_src' = IF FrameKind(s) = "users"
                   THEN Some(IF s.dataArray = None THEN <<>> ELSE s.dataArray[1])
                   ELSE roster_src
  /\ received' = IF FrameKind(s) = "message" /\ WellFormed(s)
                 THEN Append(received, <<s.data[1].from[1], s.data[1].message[1]>>)
                 ELSE received
  /\ UNCHANGED <<username, dark_mode, input, sent, storage>>

\* The user edits the chat input element.
TypeInput(t) ==
  /\ status = "running"
  /\ t # input
  /\ input' = t
  /\ last' = LastPlain("input", "none", TRUE, TRUE)
  /\ UNCHANGED <<username, users, messages, dark_mode, sent, storage, status,
                 rendered, roster_src, received>>

SubmitClearsOnSuccess(send_ok) ==
  /\ status = "running"
  /\ Len(sent) < MaxSends
  /\ sent' = Append(sent, MessageFrame(input))
  /\ input' = IF send_ok THEN "" ELSE input
  /\ last' = LastPlain("submit", "false", send_ok, TRUE)
  /\ UNCHANGED <<username, users, messages, dark_mode, storage, status, rendered,
                 roster_src, received>>

\* update, Msg::SubmitMessage arm.  The input element is bound since the first
\* render, so chat_input.cast() is Some.
SubmitMessage(send_ok) ==
  /\ status = "running"
  /\ Len(sent) < MaxSends
  /\ sent' = Append(sent, MessageFrame(input))
  /\ input' = ""
  /\ last' = LastPlain("submit", "false", send_ok, TRUE)
  /\ UNCHANGED <<username, users, messages, dark_mode, storage, status, rendered,
                 roster_src, received>>

ToggleDarkMode(write_ok) ==
  /\ status = "running"
  /\ dark_mode' = ToggleFlag(dark_mode)
  /\ storage' = ToggleStore(storage, ToggleFlag(dark_mode), write_ok)
  /\ Rerender(users, messages, ToggleFlag(dark_mode))
  /\ last' = IF last.op = "toggle" /\ last.n = 1
             THEN Last("toggle", "true", TRUE, write_ok, "", TRUE, 2,
                       last.dark0, last.store0, last.store_ok)
             ELSE Last("toggle", "true", TRUE, write_ok, "", TRUE, 1,
                       dark_mode, storage, write_ok)
  /\ UNCHANGED <<username, users, messages, input, sent, roster_src, received>>

Next ==
  \/ Create
  \/ \E s \in RawFrames : HandleMsg(s)
  \/ \E t \in Texts : TypeInput(t)
  \/ \E send_ok \in BOOLEAN : SubmitMessage(send_ok)
  \/ \E write_ok \in BOOLEAN : ToggleDarkMode(write_ok)

Spec == Init /\ [][Next]_vars

\* The view over arbitrary message bodies: one roster, one message.
HandleGif ==
  \E s \in GifRawFrames : messages = <<>> /\ HandleMsg(s)

SpecGif == Init /\ [][HandleGif]_vars

---------------------------------------------------------------------------
\* Properties.

IsPrefix(s, t) == Len(s) <= Len(t) /\ SubSeq(t, 1, Len(s)) = s

\* C1: the roster is exactly the list of the last users event handled, in
\* order, one profile per name with the avatar built from the name; before any
\* users event it is empty.  A replace, never a merge.
RosterIsLastSnapshot ==
  /\ roster_src = None => users = <<>>
  /\ roster_src # None =>
       /\ Len(users) = Len(roster_src[1])
       /\ \A i \in 1..Len(users) :
            /\ users[i].name = roster_src[1][i]
            /\ users[i].avatar = <<AvatarBase, roster_src[1][i], ".svg">>

\* A roster of one name that replaced a roster holding "a" (whose message was
\* rendered then).
RosterReplacedWitness ==
  /\ roster_src = Some(<<"b">>)
  /\ Len(users) = 1 /\ users[1].name = "b"
  /\ \E i \in 1..Len(messages) : messages[i].from = "a"

\* C2: the message list is the sequence of (from, body) pairs of the well-formed
\* message events handled so far, in arrival order; every step keeps the old
\* list as a prefix, and only a handled frame changes it (a page reload starts
\* a new session with an empty list).
MessagesAreReceived ==
  /\ Len(messages) = Len(received)
  /\ \A i \in 1..Len(messages) :
       <<messages[i].from, messages[i].message>> = received[i]

MessagesAppendOnly ==
  /\ [](MessagesAreReceived)
  /\ [][/\ last'.op # "create" => IsPrefix(messages, messages')
        /\ last'.op \notin {"create", "handle"} => messages' = messages]_vars

TwoMessagesWitness ==
  /\ status = "running"
  /\ Len(messages) = 2
  /\ messages[1].from = "b" /\ messages[2].from = "a"

\* C3: a submit empties the input, hands exactly one message frame carrying
\* the text that was in the input (the empty text too) to the sender, whether
\* or not the send succeeds, and leaves the message list and the rendered page
\* alone; the list changes only when a frame is handled.
SubmitSendsAndClears ==
  [][/\ last'.op = "submit" =>
          /\ input' = ""
          /\ Len(sent') = Len(sent) + 1
          /\ IsPrefix(sent, sent')
          /\ sent'[Len(sent')].messageType = Some("message")
          /\ sent'[Len(sent')].data = Some(input)
          /\ messages' = messages
          /\ rendered' = rendered
          /\ last'.ret = "false"
     /\ messages' # messages => last'.op \in {"handle", "create"}]_vars

SubmitEmptyFailedWitness ==
  /\ last.op = "submit"
  /\ ~last.send_ok
  /\ input = ""
  /\ sent[Len(sent)].data = Some("")
  /\ messages = <<>>

\* C4 as stated: two toggles in a row (both writes succeeding) restore the flag,
\* the rendered theme and the value the store held before the first toggle,
\* whatever that was.
ToggleTwiceRestoresStore ==
  (last.op = "toggle" /\ last.n = 2 /\ last.ok1 /\ last.store_ok) =>
    /\ dark_mode = last.dark0
    /\ rendered.main_bg = (IF last.dark0 THEN "bg-gray-900 text-white" ELSE "bg-white text-black")
    /\ storage = last.store0

\* C4, amended: two toggles in a row restore the flag and the rendered theme.
\* A successful second write leaves the "true"/"false" text of the original
\* flag in the store, so the stored value is the original one only if the
\* store already held that text; a key that was absent is not absent again.
\* With both writes failing the store is untouched.
ToggleTwiceRestoresFlag ==
  (last.op = "toggle" /\ last.n = 2) =>
    /\ dark_mode = last.dark0
    /\ rendered.main_bg = (IF last.dark0 THEN "bg-gray-900 text-white" ELSE "bg-white text-black")
    /\ last.store_ok => storage = Some(IF last.dark0 THEN "true" ELSE "false")
    /\ (~last.ok1 /\ ~last.store_ok) => storage = last.store0
    /\ (last.ok1 \/ last.store_ok) => storage # None

ToggleTwiceFromAbsentWitness ==
  /\ last.op = "toggle" /\ last.n = 2 /\ last.ok1 /\ last.store_ok
  /\ last.store0 = None
  /\ ~last.dark0 /\ ~dark_mode
  /\ storage = Some("false")

\* C5: a reload right after a toggle whose write succeeded loads the flag the
\* component held (when the store can be read); a reload with the key absent
\* or the store unreadable loads false; a toggle that persists writes "true"
\* for true and "false" for false; no other operation touches flag or store.
PreferenceRoundTrip ==
  [][/\ (last.op = "toggle" /\ last.store_ok /\ last'.op = "create" /\ last'.store_ok)
          => dark_mode' = dark_mode
     /\ (last'.op = "create" /\ (storage = None \/ ~last'.store_ok))
          => dark_mode' = FALSE
     /\ (last'.op = "toggle" /\ last'.store_ok)
          => storage' = Some(IF dark_mode' THEN "true" ELSE "false")
     /\ last'.op \notin {"toggle", "create"} => UNCHANGED <<dark_mode, storage>>]_vars

ReloadAfterToggleWitness ==
  /\ last.op = "create" /\ last.n = 1 /\ last.store_ok
  /\ last.dark0 /\ dark_mode
  /\ storage = Some("true")

\* C6: a malformed inbound frame is discarded: the component keeps running and
\* roster, message list and dark-mode flag are unchanged.
MalformedFrameIsDiscarded ==
  [][(last'.op = "handle" /\ ~last'.wellformed) =>
        /\ status' = "running"
        /\ users' = users /\ messages' = messages /\ dark_mode' = dark_mode]_vars

\* C7: in every reachable state the view renders without aborting, also when a
\* message's sender is not in the roster.
ViewNeverAborts ==
  /\ status # "panic_view"
  /\ ~View(users, messages, dark_mode).panic

\* C8: create hands exactly one register frame carrying the username to the
\* sender, before every message frame of the session, and starts with an
\* empty roster and message list whether or not that send succeeds.
RegisterIsFirstFrame ==
  /\ Len(sent) >= 1
  /\ sent[1].messageType = Some("register")
  /\ sent[1].data = Some(username)
  /\ \A i \in 2..Len(sent) : sent[i].messageType = Some("message")
  /\ last.op = "create" => (users = <<>> /\ messages = <<>> /\ Len(sent) = 1)

CreateSendFailedWitness ==
  /\ last.op = "create" /\ ~last.send_ok
  /\ users = <<>> /\ messages = <<>>
  /\ sent = <<[json |-> TRUE, messageType |-> Some("register"),
               dataArray |-> None, data |-> Some("alice")]>>

\* C9: a message is rendered as an image exactly when the last four
\* characters of its body are ".gif"; "foo.gif" is an image, "foo.gif.txt" and
\* the empty body are text.
HasGifSuffix(b) ==
  /\ Len(b) >= 4
  /\ b[Len(b) - 3] = "." /\ b[Len(b) - 2] = "g"
  /\ b[Len(b) - 1] = "i" /\ b[Len(b)] = "f"

GifRendersAsImage ==
  status = "running" =>
    /\ Len(rendered.messages) = Len(messages)
    /\ \A i \in 1..Len(messages) :
         /\ rendered.messages[i].kind = "image" <=> HasGifSuffix(messages[i].message)
         /\ rendered.messages[i].kind \in {"image", "text"}
         /\ messages[i].message = FooGif => rendered.messages[i].kind = "image"
         /\ messages[i].message \in {FooGifTxt, EmptyBody} =>
              rendered.messages[i].kind = "text"

GifTxtRendersAsTextWitness ==
  /\ status = "running"
  /\ Len(messages) = 1 /\ messages[1].message = FooGifTxt
  /\ rendered.messages[1].kind = "text"

\* C10: a handled frame is followed by a re-render exactly when it is a users
\* or a message event; a register, unrecognized or empty event changes no
\* state; a toggle always re-renders and a submit never does.
RerenderOnlyOnUsersOrMessage ==
  [][/\ last'.op = "handle" =>
          /\ last'.ret = "true" <=> last'.kind \in {"users", "message"}
          /\ last'.kind \notin {"users", "message"} =>
               UNCHANGED <<users, messages, dark_mode, storage, input, sent,
                           status, rendered>>
     /\ last'.op = "toggle" => last'.ret = "true"
     /\ last'.op = "submit" => last'.ret = "false"]_vars

====
